---- MODULE Spec2Model ----
(***************************************************************************)
(* Model of cmd/coordinator/buildongce/create.go: the one-shot             *)
(* provisioning run of the build coordinator VM.  The run is a single      *)
(* sequential process; every provider call is a step whose response is     *)
(* chosen by the environment.                                              *)
(***************************************************************************)
EXTENDS Integers, Sequences, FiniteSets, TLC

\* Largest number of PENDING/RUNNING answers the provider gives in one run.
MaxPolls == 2

\* Largest number of file names given to upload.
MaxFiles == 2

(***************************************************************************)
(* Program constants.                                                      *)
(***************************************************************************)
DefaultProj == "symbolic-datum-552"
DevProj == "go-dashboard-dev"
DefaultCoordinator == "https://storage.googleapis.com/go-builder-data/coordinator"
DevCoordinator == "https://storage.googleapis.com/dev-go-builder-data/coordinator"
ProdStaticIP == "107.178.219.46"
DevStaticIP == "104.154.113.235"
ApiPrefix == "https://www.googleapis.com/compute/v1/projects/"
imageURL == "https://www.googleapis.com/compute/v1/projects/coreos-cloud/global/images/coreos-stable-723-3-0-v20150804"
\* len(baseConfig), the byte length of the cloud-config template
BaseConfigLen == 634
\* len("$COORDINATOR"), the placeholder replaced once in the template
PlaceholderLen == 12
\* len("\nssh_authorized_keys:\n    - \n"), the stanza without its key
StanzaLen == 29
\* length of the key appended when USER is bradfitz
BradfitzKeyLen == 236
maxCloudConfig == 32768
DiskSizeGb == 50

(***************************************************************************)
(* Inputs: flag values, environment, files and provider answers.           *)
(***************************************************************************)
ProjFlags == {DefaultProj, DevProj, "my-proj", ""}
StaticIPFlags == {"", "198.51.100.7"}
CoordFlags == {DefaultCoordinator, "https://example.org/c"}
InstNames == {"farmer"}
Zones == {"us-central1-f"}
MachTypes == {"n1-standard-4"}
\* the file named by -ssh_public_key: unreadable, or its trimmed length
KeyLens == {380, 31790, 32059, 32060}
KeyFiles == [readable : {FALSE}, len : {0}] \cup [readable : {TRUE}, len : KeyLens]
NoKeyFile == [readable |-> FALSE, len |-> 0]
Users == {"bradfitz", "gopher"}

Addr(n, s, a) == [Name |-> n, Status |-> s, Address |-> a]
\* AddressAggregatedList.Items in the order the range statement visits them
AddrLists ==
    { <<>>,
      << <<Addr("farmer-ip", "RESERVED", "203.0.113.9")>> >>,
      << <<Addr("farmer-ip", "IN_USE", "203.0.113.7")>> >>,
      << <<Addr("other-ip", "RESERVED", "203.0.113.8")>> >>,
      << <<>>,
         <<Addr("farmer-ip", "IN_USE", "203.0.113.7"),
           Addr("other-ip", "RESERVED", "203.0.113.8")>>,
         <<Addr("farmer-ip", "RESERVED", "203.0.113.9")>>,
         <<Addr("farmer-ip", "RESERVED", "203.0.113.10")>> >> }

Disk(n, l) == [Name |-> n, SelfLink |-> l]
DiskLists ==
    { <<>>,
      <<Disk("farmer-coreos-stateless-pd", "link/a")>>,
      <<Disk("other-pd", "link/o")>>,
      <<Disk("other-pd", "link/o"),
        Disk("farmer-coreos-stateless-pd", "link/a"),
        Disk("farmer-coreos-stateless-pd", "link/b")>> }

\* Operation.Error: a nil pointer, or a container holding a list of errors
NilError == [present |-> FALSE, Errors |-> <<>>]
OpError(errs) == [present |-> TRUE, Errors |-> errs]
Op(s, e) == [Status |-> s, Error |-> e]
OpAnswers ==
    { Op("PENDING", NilError),
      Op("RUNNING", NilError),
      Op("RUNNING", OpError(<<"W">>)),
      Op("DONE", NilError),
      Op("DONE", OpError(<<>>)),
      Op("DONE", OpError(<<"X">>)),
      Op("DONE", OpError(<<"X", "Y">>)),
      Op("STOPPING", NilError) }
\* what Instances.Insert may report about the operation it started
SubmitAnswers == {Op("PENDING", NilError), Op("DONE", NilError)}
OpNames == {"operation-1"}

(***************************************************************************)
(* Pure parts of main.                                                     *)
(***************************************************************************)
stagingPrefix(stg) == IF stg THEN "staging-" ELSE ""

\* stagingProj overwriting whatever -project was given
stagingProj_Overwrite(stg, p) == IF stg THEN DevProj ELSE p

\* -staging redirects a project left at the production default
stagingProj(stg, p) == IF stg /\ p = DefaultProj THEN DevProj ELSE p

\* -staging redirects a coordinator URL left at the production default
stagingCoordinator(stg, c) ==
    IF stg /\ c = DefaultCoordinator THEN DevCoordinator ELSE c

\* hardCodedStaticIP without the test for an empty -static_ip
hardCodedStaticIP_Always(p, ip) ==
    CASE p = DefaultProj -> ProdStaticIP
      [] p = DevProj -> DevStaticIP
      [] OTHER -> ip

\* the static IP after the hard-coded per-project defaults
hardCodedStaticIP(p, ip) ==
    IF ip = ""
    THEN CASE p = DefaultProj -> ProdStaticIP
           [] p = DevProj -> DevStaticIP
           [] OTHER -> ""
    ELSE ip

RECURSIVE Flatten(_)
\* the addresses in the order the nested range statements visit them
Flatten(items) ==
    IF items = <<>> THEN <<>> ELSE Head(items) \o Flatten(Tail(items))

\* addrMatches without the test of the status
addrMatches_NameOnly(addr, iname) == addr.Name = iname \o "-ip"

\* the condition of IPLoop
addrMatches(addr, iname) ==
    addr.Name = iname \o "-ip" /\ addr.Status = "RESERVED"

RECURSIVE FirstAddr(_, _)
\* IPLoop over the flattened list: the first match, "" when there is none
FirstAddr(addrs, iname) ==
    IF addrs = <<>> THEN ""
    ELSE IF addrMatches(Head(addrs), iname) THEN Head(addrs).Address
    ELSE FirstAddr(Tail(addrs), iname)

IPLoop(items, iname) == FirstAddr(Flatten(items), iname)

\* len(cloudConfig) after substitution and after every appended stanza
cloudConfigLen(coord, pub, keyLen, usr) ==
    (BaseConfigLen - PlaceholderLen + Len(coord))
    + (IF pub # "" THEN StanzaLen + keyLen ELSE 0)
    + (IF usr = "bradfitz" THEN StanzaLen + BradfitzKeyLen ELSE 0)

\* tooLarge with the limit doubled
tooLarge_Doubled(n) == n > 2 * maxCloudConfig

\* tooLarge with an exclusive limit
tooLarge_Exclusive(n) == n >= maxCloudConfig

\* the size check on the rendered cloud config
tooLarge(n) == n > maxCloudConfig

diskName(iname) == iname \o "-coreos-stateless-pd"

\* a nil *AttachedDiskInitializeParams
NilInit ==
    [present |-> FALSE, DiskName |-> "", SourceImage |-> "",
     DiskSizeGb |-> 0, DiskType |-> ""]

RECURSIVE FirstDisk_Inverted(_, _)
\* FirstDisk with the name test inverted
FirstDisk_Inverted(items, name) ==
    IF items = <<>> THEN <<>>
    ELSE IF Head(items).Name = name THEN FirstDisk_Inverted(Tail(items), name)
    ELSE <<Head(items)>>

RECURSIVE FirstDisk(_, _)
\* the range over dl.Items: the first disk with the wanted name, if any
FirstDisk(items, name) ==
    IF items = <<>> THEN <<>>
    ELSE IF Head(items).Name # name THEN FirstDisk(Tail(items), name)
    ELSE <<Head(items)>>

\* the AttachedDisk that refers to an existing disk
referenceDisk(d, iname) ==
    [AutoDelete |-> FALSE, Boot |-> TRUE, DeviceName |-> diskName(iname),
     Type |-> "PERSISTENT", Source |-> d.SelfLink, Mode |-> "READ_WRITE",
     InitializeParams |-> NilInit]

ssdType(p, z, wantSSD) ==
    IF wantSSD THEN ApiPrefix \o p \o "/zones/" \o z \o "/diskTypes/pd-ssd"
    ELSE ""

\* freshDisk that is always deleted with its instance
freshDisk_AlwaysAutoDelete(reuse, iname, p, z, wantSSD) ==
    [AutoDelete |-> TRUE, Boot |-> TRUE, DeviceName |-> "",
     Type |-> "PERSISTENT", Source |-> "", Mode |-> "",
     InitializeParams |->
        [present |-> TRUE, DiskName |-> diskName(iname),
         SourceImage |-> imageURL, DiskSizeGb |-> DiskSizeGb,
         DiskType |-> ssdType(p, z, wantSSD)]]

\* the AttachedDisk that asks for a new disk made from the base image
freshDisk(reuse, iname, p, z, wantSSD) ==
    [AutoDelete |-> ~reuse, Boot |-> TRUE, DeviceName |-> "",
     Type |-> "PERSISTENT", Source |-> "", Mode |-> "",
     InitializeParams |->
        [present |-> TRUE, DiskName |-> diskName(iname),
         SourceImage |-> imageURL, DiskSizeGb |-> DiskSizeGb,
         DiskType |-> ssdType(p, z, wantSSD)]]

\* instanceDisk once the listing (made only under reuse) has answered dl
instanceDisk(reuse, items, iname, p, z, wantSSD) ==
    IF reuse /\ FirstDisk(items, diskName(iname)) # <<>>
    THEN referenceDisk(FirstDisk(items, diskName(iname))[1], iname)
    ELSE freshDisk(reuse, iname, p, z, wantSSD)

\* the compute.Instance literal
newInstance(iname, p, z, m, d, cfgLen, ip) ==
    [Name |-> iname,
     MachineType |-> ApiPrefix \o p \o "/zones/" \o z \o "/machineTypes/" \o m,
     Disks |-> <<d>>,
     Tags |-> <<"http-server", "https-server", "allow-ssh">>,
     UserDataLen |-> cfgLen,
     NatIP |-> ip,
     Network |-> ApiPrefix \o p \o "/global/networks/default",
     Scopes |-> <<"devstorage.full_control", "compute", "cloud-platform">>]

\* OpSwitch without the op.Error test: DONE always leaves the loop
OpSwitch_NoErrorTest(o) ==
    CASE o.Status \in {"PENDING", "RUNNING"} -> "continue"
      [] o.Status = "DONE" -> "break"
      [] OTHER -> "unknown_status"

\* OpSwitch with DONE handled like PENDING and RUNNING
OpSwitch_DoneWaits(o) ==
    CASE o.Status \in {"PENDING", "RUNNING", "DONE"} -> "continue"
      [] OTHER -> "unknown_status"

\* OpSwitch testing len(op.Error.Errors) > 0 instead of op.Error != nil
OpSwitch_ByList(o) ==
    CASE o.Status \in {"PENDING", "RUNNING"} -> "continue"
      [] o.Status = "DONE" ->
            IF o.Error.Errors # <<>> THEN "failed_to_start" ELSE "break"
      [] OTHER -> "unknown_status"

\* OpSwitch whose default case keeps waiting
OpSwitch_DefaultWaits(o) ==
    CASE o.Status = "DONE" ->
            IF o.Error.present THEN "failed_to_start" ELSE "break"
      [] OTHER -> "continue"

\* the switch on op.Status inside OpLoop
OpSwitch(o) ==
    CASE o.Status \in {"PENDING", "RUNNING"} -> "continue"
      [] o.Status = "DONE" ->
            IF o.Error.present THEN "failed_to_start" ELSE "break"
      [] OTHER -> "unknown_status"

\* loggedErrors printing only the first error
loggedErrors_FirstOnly(o) ==
    IF o.Error.Errors = <<>> THEN <<>> ELSE <<Head(o.Error.Errors)>>

\* the errors printed by the range over op.Error.Errors
loggedErrors(o) == o.Error.Errors

\* what tokenSource returns on the paths after default discovery failed:
\* the variable tokensource, which no statement assigns
fallbackReturn(ts) == "nil"

(***************************************************************************)
(* State.                                                                  *)
(***************************************************************************)
VARIABLES
    flags,        \* the flag values as parsed from the command line
    user,         \* $USER
    keyFile,      \* the file named by -ssh_public_key
    proj,         \* *proj
    staticIP,     \* *staticIP
    coordinator,  \* *coordinator
    pc,           \* position of the run in main / tokenSource
    result,       \* "" while running, "ok", or the fatal error
    tokenSource,  \* the local tokenSource of func tokenSource
    cred,         \* the token source handed to oauth2.NewClient
    aggAddrList,  \* the answer of Addresses.AggregatedList, <<>> before
    natIP,        \* natIP
    cloudConfig,  \* len(cloudConfig)
    dl,           \* the answer of Disks.List, <<>> before
    disk,         \* the value returned by instanceDisk, <<>> before
    instance,     \* the instance literal, <<>> before
    submitted,    \* the operation returned by Instances.Insert, <<>> before
    opName,       \* opName
    op,           \* the snapshot returned by the last ZoneOperations.Get,
                  \* <<>> before and when that call failed
    logged,       \* the operation errors printed so far
    trace,        \* every external call, sleep and file access, in order
    failures,     \* every error met so far, fatal or not, in order
    fetched,      \* the operation names passed to ZoneOperations.Get
    files,        \* upload: the file names given to upload
    upc,          \* upload: position of upload / uploadFile
    idx,          \* upload: index of the file the range statement is at
    stored,       \* upload: base names whose storage write was closed
    posts,        \* upload: base names whose registration POST was sent
    registered,   \* upload: base names whose POST was answered 200
    announced,    \* upload: base names printed by log.Printf("Uploading %v")
    uploadErr     \* upload: "" while running, "nil" or the returned error

vars == <<flags, user, keyFile, proj, staticIP, coordinator, pc, result,
          tokenSource, cred, aggAddrList, natIP, cloudConfig, dl, disk,
          instance, submitted, opName, op, logged, trace, failures, fetched,
          files, upc, idx, stored, posts, registered, announced, uploadErr>>

inputs == <<flags, user, keyFile>>

\* the state of cmd/release/upload.go, untouched by buildongce
uploadVars == <<files, upc, idx, stored, posts, registered, announced,
                uploadErr>>

\* the state of buildongce, untouched by cmd/release/upload.go
createVars == <<flags, user, keyFile, proj, staticIP, coordinator, pc,
                result, tokenSource, cred, aggAddrList, natIP, cloudConfig,
                dl, disk, instance, submitted, opName, op, logged, trace,
                failures, fetched>>

RECURSIVE Count(_, _)
Count(s, e) ==
    IF s = <<>> THEN 0
    ELSE (IF Head(s) = e THEN 1 ELSE 0) + Count(Tail(s), e)

AddrListCall == "Addresses.AggregatedList"
DiskListCall == "Disks.List"
InsertCall == "Instances.Insert"
OpGetCall == "ZoneOperations.Get"
InstGetCall == "Instances.Get"
SleepEv == "Sleep"
ProviderCalls == {AddrListCall, DiskListCall, InsertCall, OpGetCall, InstGetCall}

Calls(c) == Count(trace, c)

\* log.Fatal / log.Fatalf: the process exits
Fatal(kind) == pc' = "failed" /\ result' = kind

\* an error value came back from the named step
Failed(what) == failures' = Append(failures, what)

Init ==
    /\ flags \in [staging : BOOLEAN, project : ProjFlags,
                  static_ip : StaticIPFlags, instance_name : InstNames,
                  zone : Zones, machinetype : MachTypes,
                  reuse_disk : BOOLEAN, ssd : BOOLEAN, coord : CoordFlags,
                  ssh_public_key : {"", "id_rsa.pub"}]
    /\ user \in Users
    /\ keyFile \in KeyFiles
    /\ flags.ssh_public_key = "" => keyFile = NoKeyFile
    /\ proj = flags.project
    /\ staticIP = flags.static_ip
    /\ coordinator = flags.coord
    /\ pc = "flags"
    /\ result = ""
    /\ tokenSource = "unset"
    /\ cred = "unset"
    /\ aggAddrList = <<>>
    /\ natIP = ""
    /\ cloudConfig = 0
    /\ dl = <<>>
    /\ disk = <<>>
    /\ instance = <<>>
    /\ submitted = <<>>
    /\ opName = ""
    /\ op = <<>>
    /\ logged = <<>>
    /\ trace = <<>>
    /\ failures = <<>>
    /\ fetched = <<>>
    /\ files = <<>>
    /\ upc = "idle"
    /\ idx = 0
    /\ stored = <<>>
    /\ posts = <<>>
    /\ registered = <<>>
    /\ announced = <<>>
    /\ uploadErr = ""

(***************************************************************************)
(* main, lines 79-104: flag defaults.                                      *)
(***************************************************************************)
ParseFlags ==
    /\ pc = "flags"
    /\ proj' = stagingProj(flags.staging, proj)
    /\ coordinator' = stagingCoordinator(flags.staging, coordinator)
    /\ IF proj' = ""
       THEN Fatal("MissingProject") /\ Failed("MissingProject")
            /\ UNCHANGED staticIP
       ELSE /\ staticIP' = hardCodedStaticIP(proj', staticIP)
            /\ pc' = "token"
            /\ UNCHANGED <<result, failures>>
    /\ UNCHANGED <<uploadVars, fetched, inputs, tokenSource, cred,
                   aggAddrList, natIP, cloudConfig, dl, disk, instance,
                   submitted, opName, op, logged, trace>>

(***************************************************************************)
(* tokenSource, lines 222-264.                                             *)
(***************************************************************************)
ReadEv(name) == "ReadFile:" \o name
WriteEv(name) == "WriteFile:" \o name
tokenFileName == stagingPrefix(flags.staging) \o "token.dat"
clientIDFile == stagingPrefix(flags.staging) \o "client-id.dat"
clientSecretFile == stagingPrefix(flags.staging) \o "client-secret.dat"

tsFrame == UNCHANGED <<uploadVars, fetched, inputs, proj, staticIP,
                       coordinator, aggAddrList, natIP, cloudConfig, dl, disk,
                       instance, submitted, opName, op, logged>>

\* TokenDefault going on to the client files after a successful discovery
TokenDefault_NoReturn ==
    /\ pc = "token"
    /\ trace' = Append(trace, "DefaultTokenSource")
    /\ \E ok \in BOOLEAN :
         IF ok
         THEN /\ tokenSource' = "default"
              /\ cred' = "default"
              /\ pc' = "ts_files"
              /\ UNCHANGED failures
         ELSE /\ pc' = "ts_files"
              /\ Failed("DefaultTokenSource")
              /\ UNCHANGED <<tokenSource, cred>>
    /\ UNCHANGED result
    /\ tsFrame

\* google.DefaultTokenSource
TokenDefault ==
    /\ pc = "token"
    /\ trace' = Append(trace, "DefaultTokenSource")
    /\ \E ok \in BOOLEAN :
         IF ok
         THEN /\ tokenSource' = "default"
              /\ cred' = "default"
              /\ pc' = "natip"
              /\ UNCHANGED failures
         ELSE /\ pc' = "ts_files"
              /\ Failed("DefaultTokenSource")
              /\ UNCHANGED <<tokenSource, cred>>
    /\ UNCHANGED result
    /\ tsFrame

\* the two readFile calls of the oauth2.Config literal
TokenClientFiles ==
    /\ pc = "ts_files"
    /\ \E r \in {"ok", "no_id", "no_secret"} :
         /\ trace' = IF r = "no_id"
                     THEN Append(trace, ReadEv(clientIDFile))
                     ELSE trace \o <<ReadEv(clientIDFile),
                                     ReadEv(clientSecretFile)>>
         /\ IF r = "ok"
            THEN pc' = "ts_cache" /\ UNCHANGED <<result, failures>>
            ELSE Fatal("CredentialError") /\ Failed("ReadClientFile")
    /\ UNCHANGED <<tokenSource, cred>>
    /\ tsFrame

\* ReuseTokenSource(nil, tokenFile).Token(): read the cached token
TokenCache ==
    /\ pc = "ts_cache"
    /\ trace' = Append(trace, ReadEv(tokenFileName))
    /\ tokenSource' = "cached"
    /\ \E ok \in BOOLEAN :
         IF ok
         THEN /\ cred' = fallbackReturn(tokenSource')
              /\ pc' = "natip"
              /\ UNCHANGED failures
         ELSE /\ pc' = "ts_exchange"
              /\ Failed("ReadTokenFile")
              /\ UNCHANGED cred
    /\ UNCHANGED result
    /\ tsFrame

\* print the authorization URL, read one line, exchange the code
TokenExchange ==
    /\ pc = "ts_exchange"
    /\ trace' = trace \o <<"AuthCodeURL", "Stdin", "Exchange">>
    /\ \E ok \in BOOLEAN :
         IF ok
         THEN pc' = "ts_write" /\ UNCHANGED <<result, failures>>
         ELSE Fatal("CredentialError") /\ Failed("Exchange")
    /\ UNCHANGED <<tokenSource, cred>>
    /\ tsFrame

\* tokenFile.WriteToken, then the return
TokenWrite ==
    /\ pc = "ts_write"
    /\ trace' = Append(trace, WriteEv(tokenFileName))
    /\ \E ok \in BOOLEAN :
         IF ok
         THEN /\ tokenSource' = "exchanged"
              /\ cred' = fallbackReturn(tokenSource')
              /\ pc' = "natip"
              /\ UNCHANGED <<result, failures>>
         ELSE /\ Fatal("CredentialError")
              /\ Failed("WriteTokenFile")
              /\ UNCHANGED <<tokenSource, cred>>
    /\ tsFrame

(***************************************************************************)
(* main, lines 110-127: the NAT IP.                                        *)
(***************************************************************************)
\* *staticIP is set: no lookup
NatIPStatic ==
    /\ pc = "natip"
    /\ staticIP # ""
    /\ natIP' = staticIP
    /\ pc' = "config"
    /\ UNCHANGED <<uploadVars, fetched, inputs, proj, staticIP, coordinator,
                   result, failures, tokenSource, cred, aggAddrList,
                   cloudConfig, dl, disk, instance, submitted, opName, op,
                   logged, trace>>

\* NatIPLookup dropping the error of the listing call
NatIPLookup_IgnoreErr ==
    /\ pc = "natip"
    /\ staticIP = ""
    /\ trace' = Append(trace, AddrListCall)
    /\ \/ /\ Failed(AddrListCall)
          /\ pc' = "config"
          /\ UNCHANGED <<aggAddrList, natIP, result>>
       \/ \E items \in AddrLists :
            /\ aggAddrList' = <<items>>
            /\ natIP' = IPLoop(items, flags.instance_name)
            /\ pc' = "config"
            /\ UNCHANGED <<result, failures>>
    /\ UNCHANGED <<uploadVars, fetched, inputs, proj, staticIP, coordinator,
                   tokenSource, cred, cloudConfig, dl, disk, instance,
                   submitted, opName, op, logged>>

\* *staticIP is empty: Addresses.AggregatedList, then IPLoop
NatIPLookup ==
    /\ pc = "natip"
    /\ staticIP = ""
    /\ trace' = Append(trace, AddrListCall)
    /\ \/ /\ Fatal("ResolutionError")
          /\ Failed(AddrListCall)
          /\ UNCHANGED <<aggAddrList, natIP>>
       \/ \E items \in AddrLists :
            /\ aggAddrList' = <<items>>
            /\ natIP' = IPLoop(items, flags.instance_name)
            /\ pc' = "config"
            /\ UNCHANGED <<result, failures>>
    /\ UNCHANGED <<uploadVars, fetched, inputs, proj, staticIP, coordinator,
                   tokenSource, cred, cloudConfig, dl, disk, instance,
                   submitted, opName, op, logged>>

(***************************************************************************)
(* main, lines 129-140: the cloud config and its size check.               *)
(***************************************************************************)
CloudConfig ==
    /\ pc = "config"
    /\ trace' = IF flags.ssh_public_key # ""
                THEN Append(trace, ReadEv(flags.ssh_public_key))
                ELSE trace
    /\ IF flags.ssh_public_key # "" /\ ~keyFile.readable
       THEN /\ cloudConfig' = cloudConfigLen(coordinator, "", 0, "")
            /\ Fatal("IOError")
            /\ Failed("ReadKeyFile")
       ELSE /\ cloudConfig' = cloudConfigLen(coordinator, flags.ssh_public_key,
                                             keyFile.len, user)
            /\ IF tooLarge(cloudConfig')
               THEN Fatal("ConfigTooLarge") /\ Failed("ConfigTooLarge")
               ELSE pc' = "disk" /\ UNCHANGED <<result, failures>>
    /\ UNCHANGED <<uploadVars, fetched, inputs, proj, staticIP, coordinator,
                   tokenSource, cred, aggAddrList, natIP, dl, disk, instance,
                   submitted, opName, op, logged>>

(***************************************************************************)
(* instanceDisk, lines 266-315, called from the instance literal.          *)
(***************************************************************************)
diskFrame == UNCHANGED <<uploadVars, fetched, inputs, proj, staticIP,
                         coordinator, tokenSource, cred, aggAddrList, natIP,
                         cloudConfig, instance, submitted, opName, op, logged>>

\* DiskReuse falling back to a fresh disk when the listing fails
DiskReuse_Fallback ==
    /\ pc = "disk"
    /\ flags.reuse_disk
    /\ trace' = Append(trace, DiskListCall)
    /\ \/ /\ disk' = <<freshDisk(flags.reuse_disk, flags.instance_name,
                                  proj, flags.zone, flags.ssd)>>
          /\ pc' = "instance"
          /\ Failed(DiskListCall)
          /\ UNCHANGED <<dl, result>>
       \/ \E items \in DiskLists :
            /\ dl' = <<items>>
            /\ disk' = <<instanceDisk(flags.reuse_disk, items,
                                      flags.instance_name, proj, flags.zone,
                                      flags.ssd)>>
            /\ pc' = "instance"
            /\ UNCHANGED <<result, failures>>
    /\ diskFrame

\* -reuse_disk: list the zone's disks first
DiskReuse ==
    /\ pc = "disk"
    /\ flags.reuse_disk
    /\ trace' = Append(trace, DiskListCall)
    /\ \/ /\ Fatal("ResolutionError")
          /\ Failed(DiskListCall)
          /\ UNCHANGED <<dl, disk>>
       \/ \E items \in DiskLists :
            /\ dl' = <<items>>
            /\ disk' = <<instanceDisk(flags.reuse_disk, items,
                                      flags.instance_name, proj, flags.zone,
                                      flags.ssd)>>
            /\ pc' = "instance"
            /\ UNCHANGED <<result, failures>>
    /\ diskFrame

\* no reuse: no listing
DiskFresh ==
    /\ pc = "disk"
    /\ ~flags.reuse_disk
    /\ disk' = <<instanceDisk(flags.reuse_disk, <<>>, flags.instance_name,
                              proj, flags.zone, flags.ssd)>>
    /\ pc' = "instance"
    /\ UNCHANGED <<result, trace, dl, failures>>
    /\ diskFrame

(***************************************************************************)
(* main, lines 142-188: the instance literal and the insert.               *)
(***************************************************************************)
BuildInstance ==
    /\ pc = "instance"
    /\ instance' = <<newInstance(flags.instance_name, proj, flags.zone,
                                 flags.machinetype, disk[1], cloudConfig,
                                 natIP)>>
    /\ pc' = "insert"
    /\ UNCHANGED <<uploadVars, fetched, inputs, proj, staticIP, coordinator,
                   result, failures, tokenSource, cred, aggAddrList, natIP,
                   cloudConfig, dl, disk, submitted, opName, op, logged, trace>>

\* Insert issued without waiting for the disk and the instance literal
Insert_Speculative ==
    /\ pc \in {"disk", "insert"}
    /\ trace' = Append(trace, InsertCall)
    /\ \/ /\ Fatal("SubmissionError")
          /\ Failed(InsertCall)
          /\ UNCHANGED <<submitted, opName>>
       \/ \E n \in OpNames, o \in SubmitAnswers :
            /\ submitted' = <<o>>
            /\ opName' = n
            /\ pc' = "sleep"
            /\ UNCHANGED <<result, failures>>
    /\ UNCHANGED <<uploadVars, fetched, inputs, proj, staticIP, coordinator,
                   tokenSource, cred, aggAddrList, natIP, cloudConfig, dl,
                   disk, instance, op, logged>>

\* Insert followed by a first status fetch without sleep
Insert_NoFirstSleep ==
    /\ pc = "insert"
    /\ trace' = Append(trace, InsertCall)
    /\ \/ /\ Fatal("SubmissionError")
          /\ Failed(InsertCall)
          /\ UNCHANGED <<submitted, opName>>
       \/ \E n \in OpNames, o \in SubmitAnswers :
            /\ submitted' = <<o>>
            /\ opName' = n
            /\ pc' = "poll"
            /\ UNCHANGED <<result, failures>>
    /\ UNCHANGED <<uploadVars, fetched, inputs, proj, staticIP, coordinator,
                   tokenSource, cred, aggAddrList, natIP, cloudConfig, dl,
                   disk, instance, op, logged>>

Insert ==
    /\ pc = "insert"
    /\ trace' = Append(trace, InsertCall)
    /\ \/ /\ Fatal("SubmissionError")
          /\ Failed(InsertCall)
          /\ UNCHANGED <<submitted, opName>>
       \/ \E n \in OpNames, o \in SubmitAnswers :
            /\ submitted' = <<o>>
            /\ opName' = n
            /\ pc' = "sleep"
            /\ UNCHANGED <<result, failures>>
    /\ UNCHANGED <<uploadVars, fetched, inputs, proj, staticIP, coordinator,
                   tokenSource, cred, aggAddrList, natIP, cloudConfig, dl,
                   disk, instance, op, logged>>

(***************************************************************************)
(* main, lines 189-212: OpLoop.                                            *)
(***************************************************************************)
\* Sleep in a loop that gives up after its first round
Sleep_MaxRounds ==
    /\ pc = "sleep"
    /\ IF Calls(SleepEv) < 1
       THEN /\ trace' = Append(trace, SleepEv)
            /\ pc' = "poll"
            /\ UNCHANGED <<result, failures>>
       ELSE /\ Fatal("Timeout")
            /\ Failed("Timeout")
            /\ UNCHANGED trace
    /\ UNCHANGED <<uploadVars, fetched, inputs, proj, staticIP, coordinator,
                   tokenSource, cred, aggAddrList, natIP, cloudConfig, dl,
                   disk, instance, submitted, opName, op, logged>>

Sleep ==
    /\ pc = "sleep"
    /\ trace' = Append(trace, SleepEv)
    /\ pc' = "poll"
    /\ UNCHANGED <<uploadVars, fetched, inputs, proj, staticIP, coordinator,
                   result, failures, tokenSource, cred, aggAddrList, natIP,
                   cloudConfig, dl, disk, instance, submitted, opName, op,
                   logged>>

\* the provider answers PENDING or RUNNING at most MaxPolls times
MayAnswer(o) == OpSwitch(o) = "continue" => Calls(OpGetCall) < MaxPolls

Poll ==
    /\ pc = "poll"
    /\ trace' = Append(trace, OpGetCall)
    /\ fetched' = Append(fetched, opName)
    /\ \/ /\ Fatal("OperationFetchError")
          /\ Failed(OpGetCall)
          /\ op' = <<>>
          /\ UNCHANGED logged
       \/ \E o \in OpAnswers :
            /\ MayAnswer(o)
            /\ op' = <<o>>
            /\ CASE OpSwitch(o) = "continue" ->
                      pc' = "sleep" /\ UNCHANGED <<result, logged, failures>>
                 [] OpSwitch(o) = "failed_to_start" ->
                      /\ logged' = logged \o loggedErrors(o)
                      /\ Fatal("OperationError")
                      /\ Failed("OperationError")
                 [] OpSwitch(o) = "break" ->
                      pc' = "getinst" /\ UNCHANGED <<result, logged, failures>>
                 [] OTHER ->
                      /\ Fatal("UnknownOperationState")
                      /\ Failed("UnknownOperationState")
                      /\ UNCHANGED logged
    /\ UNCHANGED <<uploadVars, inputs, proj, staticIP, coordinator,
                   tokenSource, cred, aggAddrList, natIP, cloudConfig, dl,
                   disk, instance, submitted, opName>>

(***************************************************************************)
(* main, lines 214-219: the final fetch of the instance.                   *)
(***************************************************************************)
GetInstance ==
    /\ pc = "getinst"
    /\ trace' = Append(trace, InstGetCall)
    /\ \E ok \in BOOLEAN :
         IF ok
         THEN pc' = "done" /\ result' = "ok" /\ UNCHANGED failures
         ELSE Fatal("InstanceFetchError") /\ Failed(InstGetCall)
    /\ UNCHANGED <<uploadVars, fetched, inputs, proj, staticIP, coordinator,
                   tokenSource, cred, aggAddrList, natIP, cloudConfig, dl,
                   disk, instance, submitted, opName, op, logged>>

Next ==
    \/ ParseFlags
    \/ TokenDefault
    \/ TokenClientFiles
    \/ TokenCache
    \/ TokenExchange
    \/ TokenWrite
    \/ NatIPStatic
    \/ NatIPLookup
    \/ CloudConfig
    \/ DiskReuse
    \/ DiskFresh
    \/ BuildInstance
    \/ Insert
    \/ Sleep
    \/ Poll
    \/ GetInstance

Spec == Init /\ [][Next]_vars

\* the process keeps running: every blocking call returns
LiveSpec == Spec /\ WF_vars(Next)

(***************************************************************************)
(* cmd/release/upload.go.  File names are sequences of one-character       *)
(* strings, so that filepath.Base and fileRe are computed on the text.     *)
(***************************************************************************)
\* "go1.5.src.tar.gz"
SrcTarball ==
    <<"g", "o", "1", ".", "5", ".", "s", "r", "c", ".", "t", "a", "r", ".",
      "g", "z">>
\* "out/go1.5.1.linux-386.tar.gz"
LinuxTarball ==
    <<"o", "u", "t", "/", "g", "o", "1", ".", "5", ".", "1", ".", "l", "i",
      "n", "u", "x", "-", "3", "8", "6", ".", "t", "a", "r", ".", "g", "z">>
\* "go1.5.darwin-amd64-osx10.8.pkg"
OsxPkg ==
    <<"g", "o", "1", ".", "5", ".", "d", "a", "r", "w", "i", "n", "-", "a",
      "m", "d", "6", "4", "-", "o", "s", "x", "1", "0", ".", "8", ".", "p",
      "k", "g">>
\* "notes.txt"
NotesTxt ==
    <<"n", "o", "t", "e", "s", ".", "t", "x", "t">>
\* "dist/go1.5.linux.zip"
NoArchZip ==
    <<"d", "i", "s", "t", "/", "g", "o", "1", ".", "5", ".", "l", "i", "n",
      "u", "x", ".", "z", "i", "p">>
\* "GO1.5.windows-amd64.msi"
UpperMsi ==
    <<"G", "O", "1", ".", "5", ".", "w", "i", "n", "d", "o", "w", "s", "-",
      "a", "m", "d", "6", "4", ".", "m", "s", "i">>

FileNames == {SrcTarball, LinuxTarball, OsxPkg, NotesTxt, NoArchZip, UpperMsi}

\* the slices of at most MaxFiles names
FileLists == UNION {[1..n -> FileNames] : n \in 0..MaxFiles}

Lower ==
    {"a", "b", "c", "d", "e", "f", "g", "h", "i", "j", "k", "l", "m",
     "n", "o", "p", "q", "r", "s", "t", "u", "v", "w", "x", "y", "z"}
Digit == {"0", "1", "2", "3", "4", "5", "6", "7", "8", "9"}
\* the class [a-z0-9]
AlNum == Lower \cup Digit

\* every character of s is in class
AllIn(s, class) == \A i \in 1..Len(s) : s[i] \in class
\* s matches [class]+
Plus(s, class) == Len(s) >= 1 /\ AllIn(s, class)

\* s[from..] and s[from..to], the empty sequence when out of range
Slice(s, from, to) ==
    IF from > to THEN <<>> ELSE SubSeq(s, from, to)

\* go[a-z0-9-.]+
IsVersion(s) ==
    /\ Len(s) >= 3
    /\ s[1] = "g"
    /\ s[2] = "o"
    /\ AllIn(Slice(s, 3, Len(s)), AlNum \cup {"-", "."})

\* [a-z0-9]+-[a-z0-9]+(?:-[a-z0-9.]+)?
IsOsArch(s) ==
    \E a \in 1..Len(s) :
        /\ s[a] = "-"
        /\ Plus(Slice(s, 1, a - 1), AlNum)
        /\ LET r == Slice(s, a + 1, Len(s))
           IN  \/ Plus(r, AlNum)
               \/ \E b \in 1..Len(r) :
                     /\ r[b] = "-"
                     /\ Plus(Slice(r, 1, b - 1), AlNum)
                     /\ Plus(Slice(r, b + 1, Len(r)), AlNum \cup {"."})

\* src|os-arch[-extra]
IsTarget(s) == s = <<"s", "r", "c">> \/ IsOsArch(s)

\* tar\.gz|zip|pkg|msi
IsExt(s) ==
    s \in {<<"t", "a", "r", ".", "g", "z">>, <<"z", "i", "p">>,
           <<"p", "k", "g">>, <<"m", "s", "i">>}

\* fileRe.FindStringSubmatch(s) != nil
Matches(s) ==
    \E i \in 1..Len(s) : \E j \in (i + 1)..Len(s) :
        /\ s[i] = "."
        /\ s[j] = "."
        /\ IsVersion(Slice(s, 1, i - 1))
        /\ IsTarget(Slice(s, i + 1, j - 1))
        /\ IsExt(Slice(s, j + 1, Len(s)))

RECURSIVE StripSlashes(_)
\* the path without its trailing slashes
StripSlashes(s) ==
    IF s # <<>> /\ s[Len(s)] = "/" THEN StripSlashes(Slice(s, 1, Len(s) - 1))
    ELSE s

RECURSIVE AfterLastSlash(_, _)
\* s[i+1:] for the last index i below or at k that holds a slash
AfterLastSlash(s, k) ==
    IF k = 0 THEN s
    ELSE IF s[k] = "/" THEN Slice(s, k + 1, Len(s))
    ELSE AfterLastSlash(s, k - 1)

\* filepath.Base
Base(name) ==
    IF name = <<>> THEN <<".">>
    ELSE LET t == StripSlashes(name)
         IN  IF t = <<>> THEN <<"/">> ELSE AfterLastSlash(t, Len(t))

\* the state of buildongce while cmd/release runs: flag defaults, not started
CreateIdle ==
    /\ flags = [staging |-> FALSE, project |-> DefaultProj, static_ip |-> "",
                instance_name |-> "farmer", zone |-> "us-central1-f",
                machinetype |-> "n1-standard-4", reuse_disk |-> TRUE,
                ssd |-> TRUE, coord |-> DefaultCoordinator,
                ssh_public_key |-> ""]
    /\ user = "gopher"
    /\ keyFile = NoKeyFile
    /\ proj = flags.project
    /\ staticIP = flags.static_ip
    /\ coordinator = flags.coord
    /\ pc = "flags"
    /\ result = ""
    /\ tokenSource = "unset"
    /\ cred = "unset"
    /\ aggAddrList = <<>>
    /\ natIP = ""
    /\ cloudConfig = 0
    /\ dl = <<>>
    /\ disk = <<>>
    /\ instance = <<>>
    /\ submitted = <<>>
    /\ opName = ""
    /\ op = <<>>
    /\ logged = <<>>
    /\ trace = <<>>
    /\ failures = <<>>
    /\ fetched = <<>>

\* upload is called with a slice of file names
UInit ==
    /\ CreateIdle
    /\ files \in FileLists
    /\ upc = "start"
    /\ idx = 0
    /\ stored = <<>>
    /\ posts = <<>>
    /\ registered = <<>>
    /\ announced = <<>>
    /\ uploadErr = ""

\* return err
Return(err) == upc' = "returned" /\ uploadErr' = err

\* lines 52-55: serviceContext, lines 132-143
ServiceContext ==
    /\ upc = "start"
    /\ \E ok \in BOOLEAN :
         IF ok
         THEN upc' = "range" /\ idx' = 1 /\ UNCHANGED uploadErr
         ELSE Return("serviceContext") /\ UNCHANGED idx
    /\ UNCHANGED <<createVars, files, stored, posts, registered, announced>>

\* line 75: the range statement is over, return nil
UploadDone ==
    /\ upc = "range"
    /\ idx > Len(files)
    /\ Return("nil")
    /\ UNCHANGED <<createVars, files, idx, stored, posts, registered,
                   announced>>

\* UploadMatch going on to the next file when the name is not recognized
UploadMatch_Skip ==
    /\ upc = "range"
    /\ idx <= Len(files)
    /\ announced' = Append(announced, Base(files[idx]))
    /\ IF Matches(Base(files[idx]))
       THEN upc' = "read" /\ UNCHANGED <<uploadErr, idx>>
       ELSE idx' = idx + 1 /\ UNCHANGED <<upc, uploadErr>>
    /\ UNCHANGED <<createVars, files, stored, posts, registered>>

\* lines 56-62: the next name, its base, the log line and the match
UploadMatch ==
    /\ upc = "range"
    /\ idx <= Len(files)
    /\ announced' = Append(announced, Base(files[idx]))
    /\ IF Matches(Base(files[idx]))
       THEN upc' = "read" /\ UNCHANGED uploadErr
       ELSE Return("unrecognized file")
    /\ UNCHANGED <<createVars, files, idx, stored, posts, registered>>

\* lines 79-82: ioutil.ReadFile(filename)
UploadReadFile ==
    /\ upc = "read"
    /\ \E ok \in BOOLEAN :
         IF ok
         THEN upc' = "store" /\ UNCHANGED uploadErr
         ELSE Return("ReadFile")
    /\ UNCHANGED <<createVars, files, idx, stored, posts, registered,
                   announced>>

\* lines 83-93: the storage writer for the base name, Write and Close
UploadStore ==
    /\ upc = "store"
    /\ \E ok \in BOOLEAN :
         IF ok
         THEN /\ stored' = Append(stored, Base(files[idx]))
              /\ upc' = "post"
              /\ UNCHANGED uploadErr
         ELSE Return("uploading file") /\ UNCHANGED stored
    /\ UNCHANGED <<createVars, files, idx, posts, registered, announced>>

\* lines 95-128: the File record and http.Post; on 200 uploadFile returns
\* nil and the range statement takes the next name
UploadPost ==
    /\ upc = "post"
    /\ posts' = Append(posts, Base(files[idx]))
    /\ \E answer \in {"error", "200", "500"} :
         CASE answer = "error" ->
                Return("http.Post") /\ UNCHANGED <<registered, idx>>
           [] answer = "500" ->
                Return("upload failed") /\ UNCHANGED <<registered, idx>>
           [] answer = "200" ->
                /\ registered' = Append(registered, Base(files[idx]))
                /\ idx' = idx + 1
                /\ upc' = "range"
                /\ UNCHANGED uploadErr
    /\ UNCHANGED <<createVars, files, stored, announced>>

UNext ==
    \/ ServiceContext
    \/ UploadDone
    \/ UploadMatch
    \/ UploadReadFile
    \/ UploadStore
    \/ UploadPost

UploadSpec == UInit /\ [][UNext]_vars

Terminated == pc \in {"done", "failed"}

TypeOK ==
    /\ pc \in {"flags", "token", "ts_files", "ts_cache", "ts_exchange",
               "ts_write", "natip", "config", "disk", "instance", "insert",
               "sleep", "poll", "getinst", "done", "failed"}
    /\ cred \in {"unset", "default", "nil"}
    /\ Len(disk) <= 1
    /\ Len(instance) <= 1
    /\ Len(op) <= 1
    /\ \A i \in 1..Len(op) : op[i] \in OpAnswers
    /\ (result = "") = ~Terminated

(***************************************************************************)
(* Properties of the operation poller.                                     *)
(***************************************************************************)
Last(sq) == sq[Len(sq)]

KnownStatus == {"PENDING", "RUNNING", "DONE"}

\* the last status fetch answered DONE
DoneObserved == op # <<>> /\ op[1].Status = "DONE"

\* the last status fetch answered DONE and the answer has no error container
DoneSuccess == DoneObserved /\ ~op[1].Error.present

\* C1 as stated: after PENDING/RUNNING answers and a DONE answer without
\* errors the run succeeds with exactly one Instances.Get, and a run that
\* did not see such an answer issues none.
C1_AsStated ==
    /\ (Terminated /\ DoneSuccess) =>
            result = "ok" /\ Calls(InstGetCall) = 1
    /\ ~DoneSuccess => Calls(InstGetCall) = 0

\* C1, amended: after any number of PENDING/RUNNING answers, a DONE answer
\* without an error container makes the run issue exactly one Instances.Get,
\* as the call right after that status fetch, and the run succeeds unless
\* that fetch fails; a run that has not observed such an answer has issued
\* no Instances.Get, and no run succeeds without it.
C1_OneFetchAfterDone ==
    /\ (Terminated /\ DoneSuccess) =>
            /\ Calls(InstGetCall) = 1
            /\ result \in {"ok", "InstanceFetchError"}
    /\ Calls(InstGetCall) > 0 =>
            /\ DoneSuccess
            /\ Calls(InstGetCall) = 1
            /\ Last(trace) = InstGetCall
            /\ trace[Len(trace) - 1] = OpGetCall
    /\ ~DoneSuccess => Calls(InstGetCall) = 0
    /\ result = "ok" => Calls(InstGetCall) = 1

\* the scenario [PENDING, RUNNING, DONE(no error)]: success after three polls
C1_Witness ==
    /\ result = "ok"
    /\ Calls(OpGetCall) = 3
    /\ Calls(InstGetCall) = 1

\* C2: a status fetch that answers DONE ends the loop in that very step,
\* going on to the instance fetch or to failure, however many PENDING or
\* RUNNING answers came before; and as the provider stops answering PENDING
\* or RUNNING the run reaches a terminal state.
C2_DoneEndsLoop ==
    /\ [][(pc = "poll" /\ op' # <<>> /\ op'[1].Status = "DONE")
             => pc' \in {"getinst", "failed"}]_vars
    /\ <>Terminated

\* DONE answered after MaxPolls waiting rounds, and the loop was left
C2_Witness ==
    /\ DoneObserved
    /\ pc = "getinst"
    /\ Calls(OpGetCall) >= 3

\* C3: a DONE answer that reports one or more errors fails the run with
\* OperationError, and every reported error has been logged, in order.
C3_AllErrorsLogged ==
    (DoneObserved /\ op[1].Error.Errors # <<>>) =>
        /\ pc = "failed"
        /\ result = "OperationError"
        /\ logged = op[1].Error.Errors
        /\ Calls(InstGetCall) = 0

C3_Witness ==
    /\ result = "OperationError"
    /\ logged = <<"X", "Y">>

\* C4 as stated: on DONE the run fails exactly when the error list is
\* non-empty; an empty list, also inside a present container, is success.
C4_AsStated ==
    DoneObserved =>
        /\ (result = "OperationError") <=> (op[1].Error.Errors # <<>>)
        /\ op[1].Error.Errors = <<>> => pc \in {"getinst", "done", "failed"}
                                        /\ result # "OperationError"

\* C4, amended: on DONE the outcome is decided by the presence of the error
\* container alone: the run fails with OperationError exactly when the
\* container is present, even when it holds no error; without a container
\* the answer is a success and leads to the final instance fetch.
C4_DecidedByContainer ==
    DoneObserved =>
        IF op[1].Error.present
        THEN /\ pc = "failed"
             /\ result = "OperationError"
             /\ Calls(InstGetCall) = 0
        ELSE /\ pc \in {"getinst", "done", "failed"}
             /\ result \in {"", "ok", "InstanceFetchError"}
             /\ pc # "getinst" => Calls(InstGetCall) = 1

\* DONE with a container that holds no error: the run failed
C4_Witness ==
    /\ op = <<Op("DONE", OpError(<<>>))>>
    /\ result = "OperationError"
    /\ logged = <<>>

\* C5: an answer whose status is not PENDING, RUNNING or DONE fails the run
\* at once with UnknownOperationState: that status fetch is the last call of
\* the run and the instance is never fetched.
C5_UnknownStatusFatal ==
    (op # <<>> /\ op[1].Status \notin KnownStatus) =>
        /\ pc = "failed"
        /\ result = "UnknownOperationState"
        /\ Last(trace) = OpGetCall
        /\ Calls(InstGetCall) = 0

C5_Witness ==
    /\ result = "UnknownOperationState"
    /\ op[1].Status = "STOPPING"
    /\ Calls(OpGetCall) >= 2

(***************************************************************************)
(* Properties of the resolvers and of the size check.                      *)
(***************************************************************************)
\* the positions of a run that has resolved natIP and has not failed
AfterNatIP == {"config", "disk", "instance", "insert", "sleep", "poll",
               "getinst", "done"}

OtherCalls == ProviderCalls \ {AddrListCall}

\* the configuration renders a cloud config over the limit
Oversize ==
    /\ flags.ssh_public_key # "" => keyFile.readable
    /\ cloudConfigLen(stagingCoordinator(flags.staging, flags.coord),
                      flags.ssh_public_key, keyFile.len, user) > 32768

\* C6 as stated: a rendered cloud config over 32768 bytes fails the run with
\* ConfigTooLarge and no provider call of any kind was issued in that run.
C6_AsStated ==
    cloudConfig > 32768 =>
        /\ result = "ConfigTooLarge"
        /\ \A c \in ProviderCalls : Calls(c) = 0

\* C6, amended: a rendered cloud config over 32768 bytes fails the run with
\* ConfigTooLarge, and a run whose configuration renders over the limit never
\* issues Disks.List, Instances.Insert, ZoneOperations.Get or Instances.Get;
\* Addresses.AggregatedList, which precedes the size check, has been issued
\* once exactly when the static IP is empty after the per-project defaults.
C6_NoCallAfterSizeCheck ==
    /\ cloudConfig > 32768 =>
            /\ pc = "failed"
            /\ result = "ConfigTooLarge"
            /\ Calls(AddrListCall) = (IF staticIP = "" THEN 1 ELSE 0)
            /\ disk = <<>> /\ instance = <<>>
    /\ Oversize =>
            /\ \A c \in OtherCalls : Calls(c) = 0
            /\ pc \notin {"disk", "instance", "insert", "sleep", "poll",
                          "getinst", "done"}

\* one byte over the limit, caught after the address listing was made
C6_Witness ==
    /\ result = "ConfigTooLarge"
    /\ cloudConfig = 32769
    /\ Calls(AddrListCall) = 1

\* C7: a non-empty -static_ip is the NAT IP of the instance literal whatever
\* the project and the reserved addresses, and Addresses.AggregatedList is
\* never called.
C7_ExplicitIPWins ==
    flags.static_ip # "" =>
        /\ Calls(AddrListCall) = 0
        /\ aggAddrList = <<>>
        /\ pc \in AfterNatIP => natIP = flags.static_ip
        /\ instance # <<>> => instance[1].NatIP = flags.static_ip

\* an explicit IP kept for a project that has a hard-coded address
C7_Witness ==
    /\ instance # <<>>
    /\ proj = DefaultProj
    /\ flags.static_ip = "198.51.100.7"
    /\ instance[1].NatIP = "198.51.100.7"

\* ip is what the named lookup gives on the listing items: the address of the
\* first entry named <iname>-ip with status RESERVED, "" without such entry
NamedLookup(ip, items, iname) ==
    LET flat == Flatten(items)
        M == {i \in 1..Len(flat) : /\ flat[i].Name = iname \o "-ip"
                                   /\ flat[i].Status = "RESERVED"}
    IN  IF M = {} THEN ip = ""
        ELSE \E i \in M : (\A j \in M : i <= j) /\ ip = flat[i].Address

\* C8 as stated: without -static_ip the NAT IP is the result of the named
\* lookup, for every project.
C8_AsStated ==
    (flags.static_ip = "" /\ pc \in AfterNatIP) =>
        /\ Calls(AddrListCall) = 1
        /\ aggAddrList # <<>>
        /\ NamedLookup(natIP, aggAddrList[1], flags.instance_name)

\* C8, amended: without -static_ip the NAT IP is the result of the named
\* lookup when the project, after the staging redirect, is neither
\* symbolic-datum-552 nor go-dashboard-dev; for these two projects it is the
\* hard-coded address of the project and no lookup is made.
C8_LookupUnlessHardCoded ==
    (flags.static_ip = "" /\ pc \in AfterNatIP) =>
        /\ CASE proj = DefaultProj ->
                    natIP = "107.178.219.46" /\ Calls(AddrListCall) = 0
             [] proj = DevProj ->
                    natIP = "104.154.113.235" /\ Calls(AddrListCall) = 0
             [] OTHER ->
                    /\ Calls(AddrListCall) = 1
                    /\ aggAddrList # <<>>
                    /\ NamedLookup(natIP, aggAddrList[1], flags.instance_name)
        /\ instance # <<>> => instance[1].NatIP = natIP

\* the lookup skipped an entry with the wrong status and one with the wrong
\* name, and took the first of two matches
C8_Witness ==
    /\ pc \in AfterNatIP
    /\ flags.static_ip = ""
    /\ aggAddrList # <<>>
    /\ Len(Flatten(aggAddrList[1])) = 4
    /\ natIP = "203.0.113.9"

IsReference(d) ==
    /\ d.Source # ""
    /\ ~d.InitializeParams.present
    /\ d.Mode = "READ_WRITE"
    /\ ~d.AutoDelete

IsFresh(d) ==
    /\ d.InitializeParams.present
    /\ d.Source = ""

\* the listing was made and holds a disk with the target name
DiskListed ==
    /\ dl # <<>>
    /\ \E i \in 1..Len(dl[1]) :
            dl[1][i].Name = flags.instance_name \o "-coreos-stateless-pd"

\* C9: the disk descriptor is a reference to a listed disk with the target
\* name exactly when reuse is set and the listing holds such a disk, and a
\* fresh specification otherwise; it is always one of the two, never both.
C9_ReferenceIffListed ==
    disk # <<>> =>
        /\ IsReference(disk[1]) <=> (flags.reuse_disk /\ DiskListed)
        /\ IsFresh(disk[1]) <=> ~(flags.reuse_disk /\ DiskListed)
        /\ IsReference(disk[1]) # IsFresh(disk[1])
        /\ IsReference(disk[1]) =>
              \E i \in 1..Len(dl[1]) :
                 /\ dl[1][i].Name = flags.instance_name \o "-coreos-stateless-pd"
                 /\ dl[1][i].SelfLink = disk[1].Source

\* a reference found behind a disk with another name
C9_Witness ==
    /\ disk # <<>>
    /\ dl # <<>>
    /\ Len(dl[1]) = 3
    /\ disk[1].Source = "link/a"

\* C10: under reuse a failed Disks.List ends the run in failure: no disk
\* descriptor and no instance exist, and Instances.Insert is never called.
C10_ListFailureFatal ==
    (flags.reuse_disk /\ Calls(DiskListCall) > 0 /\ dl = <<>>) =>
        /\ pc = "failed"
        /\ result = "ResolutionError"
        /\ disk = <<>>
        /\ instance = <<>>
        /\ Calls(InsertCall) = 0

C10_Witness ==
    /\ flags.reuse_disk
    /\ result = "ResolutionError"
    /\ Last(trace) = DiskListCall

(***************************************************************************)
(* Properties of credential acquisition and of the run as a whole.         *)
(***************************************************************************)
\* C11: whenever tokenSource returns, what it returns is not nil and is the
\* source built on the path taken: the default source, the source wrapping
\* the cached token, or the source wrapping the exchanged token.
C11_ReturnsUsableSource ==
    cred # "unset" =>
        /\ cred # "nil"
        /\ cred = tokenSource

\* the file, console and token-endpoint events of tokenSource
TokenEvents ==
    {"DefaultTokenSource", "AuthCodeURL", "Stdin", "Exchange",
     "ReadFile:client-id.dat", "ReadFile:staging-client-id.dat",
     "ReadFile:client-secret.dat", "ReadFile:staging-client-secret.dat",
     "ReadFile:token.dat", "ReadFile:staging-token.dat",
     "WriteFile:token.dat", "WriteFile:staging-token.dat"}

\* the stage of main an event belongs to
Stage(e) ==
    CASE e \in TokenEvents -> 1
      [] e = AddrListCall -> 2
      [] e = DiskListCall -> 4
      [] e = InsertCall -> 5
      [] e \in {SleepEv, OpGetCall} -> 6
      [] e = InstGetCall -> 7
      [] OTHER -> 3

\* C12: the steps are issued in dependency order: Instances.Insert only
\* after credential acquisition returned, the NAT IP was resolved, the cloud
\* config passed the size check and the disk was resolved; no status fetch
\* before Insert returned an operation name; Instances.Get only after a
\* status fetch observed DONE; and no step of an earlier stage follows a
\* step of a later one.
C12_DependencyOrder ==
    /\ \A i \in 1..(Len(trace) - 1) : Stage(trace[i]) <= Stage(trace[i + 1])
    /\ \A c \in {AddrListCall, DiskListCall, InsertCall, InstGetCall} :
            Calls(c) <= 1
    /\ Calls(InsertCall) > 0 =>
            /\ cred # "unset"
            /\ staticIP = "" => aggAddrList # <<>>
            /\ cloudConfig \in 1..32768
            /\ flags.reuse_disk => dl # <<>>
            /\ disk # <<>>
            /\ instance # <<>>
            /\ instance[1].Disks = disk
            /\ instance[1].NatIP = natIP
            /\ instance[1].UserDataLen = cloudConfig
    /\ Calls(OpGetCall) > 0 =>
            /\ Calls(InsertCall) = 1
            /\ submitted # <<>>
            /\ opName \in OpNames
    /\ Calls(InstGetCall) > 0 => DoneObserved

\* a run that made every kind of provider call
C12_Witness ==
    /\ \A c \in ProviderCalls : Calls(c) >= 1
    /\ Calls(OpGetCall) >= 2
    /\ flags.ssh_public_key # ""

\* the errors after which tokenSource goes on to its next credential source
FallbackErrors == {"DefaultTokenSource", "ReadTokenFile"}

\* the errors the claim lists
ListedErrors ==
    {"ReadClientFile", "ReadTokenFile", "Exchange", "WriteTokenFile",
     AddrListCall, DiskListCall, "ConfigTooLarge", InsertCall, OpGetCall,
     "UnknownOperationState", "OperationError"}

\* C13 as stated: once one of the listed errors has occurred the run is in
\* the failed state.
C13_AsStated ==
    (\E i \in 1..Len(failures) : failures[i] \in ListedErrors) =>
        pc = "failed" /\ result \notin {"", "ok"}

\* C13, amended: every error is terminal except a failed provider-default
\* discovery and a failed read of the cached token, after which tokenSource
\* goes on to the next credential source and the run continues: any other
\* error is the last one of the run, leaves it failed, is followed by no
\* further call, and a run reports success only if no such error occurred.
C13_FatalExceptFallback ==
    /\ [](\A i \in 1..Len(failures) :
            failures[i] \notin FallbackErrors =>
                /\ i = Len(failures)
                /\ pc = "failed"
                /\ result \notin {"", "ok"})
    /\ [](pc = "failed" =>
            failures # <<>> /\ Last(failures) \notin FallbackErrors)
    /\ [][pc = "failed" => UNCHANGED <<pc, result, trace, failures>>]_vars

\* the cached token could not be read, the run went on to the exchange and
\* to the provider, and the failed insert then ended it
C13_Witness ==
    /\ failures = <<"DefaultTokenSource", "ReadTokenFile", InsertCall>>
    /\ pc = "failed"
    /\ Last(trace) = InsertCall

ProdCredFiles ==
    {"ReadFile:client-id.dat", "ReadFile:client-secret.dat",
     "ReadFile:token.dat", "WriteFile:token.dat"}

StagingCredFiles ==
    {"ReadFile:staging-client-id.dat", "ReadFile:staging-client-secret.dat",
     "ReadFile:staging-token.dat", "WriteFile:staging-token.dat"}

\* C14: with -staging a project left at symbolic-datum-552 becomes
\* go-dashboard-dev, a coordinator URL left at the production default becomes
\* the dev URL, and the client-id, client-secret and token files carry the
\* staging- prefix; without -staging nothing is changed and the files carry
\* no prefix; a non-default project or coordinator URL is never overwritten.
C14_StagingSwitch ==
    /\ pc # "flags" =>
          /\ proj = IF flags.staging /\ flags.project = "symbolic-datum-552"
                    THEN "go-dashboard-dev" ELSE flags.project
          /\ coordinator =
                IF flags.staging /\ flags.coord =
                     "https://storage.googleapis.com/go-builder-data/coordinator"
                THEN "https://storage.googleapis.com/dev-go-builder-data/coordinator"
                ELSE flags.coord
    /\ \A i \in 1..Len(trace) :
          IF flags.staging
          THEN trace[i] \notin ProdCredFiles
          ELSE trace[i] \notin StagingCredFiles

\* all three redirected in one run: project, coordinator URL, token file
C14_Witness ==
    /\ flags.staging
    /\ flags.project = DefaultProj /\ proj = DevProj
    /\ flags.coord = DefaultCoordinator /\ coordinator = DevCoordinator
    /\ Calls("ReadFile:staging-client-id.dat") = 1
    /\ Last(trace) = "WriteFile:staging-token.dat"

(***************************************************************************)
(* Further properties of the operation poller.                             *)
(***************************************************************************)
\* C15: every ZoneOperations.Get comes right after one Sleep and is given
\* the operation name Instances.Insert returned, which never changes; the
\* status reported by Insert is not looked at, so a run whose insert
\* succeeded sleeps and fetches at least once, also when Insert already
\* reported DONE.
C15_SleepThenFetch ==
    /\ [](/\ \A i \in 1..Len(trace) :
                trace[i] = OpGetCall => i > 1 /\ trace[i - 1] = SleepEv
          /\ Calls(SleepEv) - Calls(OpGetCall) \in {0, 1}
          /\ Len(fetched) = Calls(OpGetCall)
          /\ \A i \in 1..Len(fetched) :
                fetched[i] = opName /\ fetched[i] \in OpNames
          /\ (submitted # <<>> /\ pc \notin {"sleep", "poll"}) =>
                Calls(SleepEv) >= 1 /\ Calls(OpGetCall) >= 1)
    /\ [][opName # "" => opName' = opName]_vars

\* Insert reported DONE, and the run still slept and fetched, twice
C15_Witness ==
    /\ submitted = <<Op("DONE", NilError)>>
    /\ fetched = <<"operation-1", "operation-1">>
    /\ Calls(SleepEv) = 2
    /\ Terminated

\* the last status fetch answered PENDING or RUNNING
Waiting == op # <<>> /\ op[1].Status \in {"PENDING", "RUNNING"}

\* C16: the loop has no iteration limit and no way out while the provider
\* answers PENDING or RUNNING: after such an answer, whatever the number of
\* rounds made, the run is still in the loop with its next sleep or fetch
\* enabled, has not terminated and has not fetched the instance.
C16_LoopUnbounded ==
    Waiting =>
        /\ pc \in {"sleep", "poll"}
        /\ result = ""
        /\ Calls(InstGetCall) = 0
        /\ Calls(OpGetCall) = Len(fetched)
        /\ pc = "sleep" => ENABLED Sleep
        /\ pc = "poll" => ENABLED Poll

\* a third round under way after two RUNNING answers
C16_Witness ==
    /\ Waiting
    /\ op[1].Status = "RUNNING"
    /\ pc = "poll"
    /\ Calls(SleepEv) = 3

(***************************************************************************)
(* Further properties of the disk resolver and of the size check.          *)
(***************************************************************************)
\* C17: a fresh disk specification has auto-delete equal to the negation of
\* reuse, 50 GB, the target disk name, and the pd-ssd type URL of the project
\* and zone exactly when -ssd is set, the empty type otherwise; a fresh disk
\* made under reuse because no listed disk matched is not auto-deleted.
C17_FreshDiskFields ==
    (disk # <<>> /\ disk[1].InitializeParams.present) =>
        /\ disk[1].AutoDelete = ~flags.reuse_disk
        /\ disk[1].InitializeParams.DiskSizeGb = 50
        /\ disk[1].InitializeParams.DiskName =
              flags.instance_name \o "-coreos-stateless-pd"
        /\ disk[1].InitializeParams.DiskType =
              IF flags.ssd
              THEN "https://www.googleapis.com/compute/v1/projects/" \o proj
                   \o "/zones/" \o flags.zone \o "/diskTypes/pd-ssd"
              ELSE ""
        /\ flags.reuse_disk => ~DiskListed /\ ~disk[1].AutoDelete

\* under reuse the listing held only another disk: a fresh SSD disk, kept
C17_Witness ==
    /\ flags.reuse_disk /\ flags.ssd
    /\ dl = << <<Disk("other-pd", "link/o")>> >>
    /\ disk # <<>>
    /\ disk[1].InitializeParams.present
    /\ ~disk[1].AutoDelete


\* len(cloudConfig) at the size check: the base text with the coordinator
\* URL in place of the placeholder, then the stanza of the given key file,
\* then the stanza of the built-in key
FinalLen ==
    622 + Len(coordinator)
    + (IF flags.ssh_public_key # "" THEN 29 + keyFile.len ELSE 0)
    + (IF user = "bradfitz" THEN 265 ELSE 0)

\* the size check was reached
SizeChecked == cloudConfig # 0 /\ Count(failures, "ReadKeyFile") = 0

\* C18: the size limit is inclusive: the length checked is that of the final
\* blob; a blob of at most 32768 bytes never fails with ConfigTooLarge and
\* the run goes on from the size check to the disk and to Instances.Insert,
\* and a blob of 32769 bytes or more always fails with ConfigTooLarge.
C18_InclusiveLimit ==
    /\ [](SizeChecked =>
            /\ cloudConfig = FinalLen
            /\ (cloudConfig >= 32769) <=> (result = "ConfigTooLarge")
            /\ (cloudConfig >= 32769) <=> (Count(failures, "ConfigTooLarge") = 1)
            /\ cloudConfig >= 32769 => pc = "failed"
            /\ Calls(InsertCall) > 0 => cloudConfig <= 32768)
    /\ [][pc = "config" /\ SizeChecked' /\ cloudConfig' <= 32768
             => pc' = "disk" /\ result' = ""]_vars

\* a blob of exactly 32768 bytes was submitted
C18_Witness ==
    /\ cloudConfig = 32768
    /\ flags.ssh_public_key # ""
    /\ Calls(InsertCall) = 1
    /\ submitted # <<>>


(***************************************************************************)
(* Frame of credential acquisition.                                        *)
(***************************************************************************)
\* google.DefaultTokenSource was called and returned no error
DefaultOK ==
    Calls("DefaultTokenSource") = 1 /\ Count(failures, "DefaultTokenSource") = 0

TokenFileWrites == {"WriteFile:token.dat", "WriteFile:staging-token.dat"}

\* C19: when the default discovery succeeds, tokenSource returns that source
\* at once: no client-id, client-secret or token file is read, no
\* authorization URL is printed, the console is not read and the token file
\* is not written.  The token file is written only on the interactive path,
\* right after an exchange that succeeded.
C19_DefaultReturnsAtOnce ==
    /\ [](DefaultOK =>
            /\ cred = "default"
            /\ tokenSource = "default"
            /\ pc \notin {"ts_files", "ts_cache", "ts_exchange", "ts_write"}
            /\ \A i \in 1..Len(trace) :
                  trace[i] \in TokenEvents => trace[i] = "DefaultTokenSource")
    /\ [](\A i \in 1..Len(trace) :
            trace[i] \in TokenFileWrites =>
                /\ i > 3
                /\ trace[i-3] = "AuthCodeURL"
                /\ trace[i-2] = "Stdin"
                /\ trace[i-1] = "Exchange"
                /\ Count(failures, "Exchange") = 0
                /\ Count(failures, "DefaultTokenSource") = 1
                /\ Count(failures, "ReadTokenFile") = 1)
    /\ [][Len(trace') > Len(trace) /\ Last(trace') \in TokenFileWrites
             => pc = "ts_write"]_vars

\* the discovery succeeded and the run went on to submit the instance
C19_Witness ==
    /\ DefaultOK
    /\ trace[1] = "DefaultTokenSource"
    /\ Calls(InsertCall) = 1
    /\ pc = "done"


(***************************************************************************)
(* Properties of upload.                                                   *)
(***************************************************************************)
\* the base names of the first k files
Bases(k) == [i \in 1..k |-> Base(files[i])]

IsPrefix(a, b) == Len(a) <= Len(b) /\ a = Slice(b, 1, Len(a))

\* the given names that are no release files
Unrecognized == {NotesTxt, NoArchZip, UpperMsi}

\* C20: upload takes the files in list order and stops at the first failure:
\* a file whose base name does not match the pattern is neither stored nor
\* registered; the POST for a file is sent only after its storage write was
\* closed; after a failure at file i no later file is stored or registered
\* and the files before i stay stored and registered; upload returns nil only
\* if every file was stored and registered.
C20_InOrderStopAtFirstFailure ==
    /\ [](/\ Len(announced) <= Len(files)
          /\ announced = Bases(Len(announced))
          /\ stored = Bases(Len(stored))
          /\ posts = Bases(Len(posts))
          /\ registered = Bases(Len(registered))
          /\ Len(registered) <= Len(posts)
          /\ Len(posts) <= Len(stored)
          /\ Len(stored) <= Len(announced)
          /\ Len(announced) <= Len(registered) + 1
          /\ \A i \in 1..Len(files) :
                files[i] \in Unrecognized =>
                    Len(stored) < i /\ Len(posts) < i /\ Len(announced) <= i
          /\ uploadErr = "nil" =>
                /\ stored = Bases(Len(files))
                /\ registered = Bases(Len(files))
          /\ uploadErr \notin {"", "nil"} =>
                /\ upc = "returned"
                /\ Len(registered) < Len(files) \/ announced = <<>>
                /\ announced # <<>> => Len(registered) = Len(announced) - 1)
    /\ [][/\ IsPrefix(stored, stored')
          /\ IsPrefix(registered, registered')
          /\ posts' # posts =>
                /\ Len(stored) = Len(posts) + 1
                /\ posts' = Append(posts, Last(stored))
          /\ uploadErr # "" => UNCHANGED <<stored, posts, registered>>]_vars

\* the first file is stored and registered, the second is not recognized:
\* upload returned the error and the first file stays
C20_Witness ==
    /\ files = <<LinuxTarball, NotesTxt>>
    /\ uploadErr = "unrecognized file"
    /\ stored = <<Base(LinuxTarball)>>
    /\ registered = stored
    /\ Len(announced) = 2

====
